---- MODULE Spec2Model ----
(***************************************************************************)
(* Model of apps/scenergy-visualizer/design-log/generate-slideshow.py:     *)
(* the five slide composer functions, the presentation they append to,     *)
(* and the module-level script that calls them, saves the deck and         *)
(* reports.                                                                *)
(*                                                                         *)
(* Representation.  A slide is the sequence of shapes the composer added   *)
(* to it, in emission order.  A text frame is its sequence of paragraphs;  *)
(* a new text frame holds one empty paragraph (the rendering backend's     *)
(* text box always starts with paragraphs[0]).  A paragraph keeps its text *)
(* and the literal prefix the f-string puts before it separately.          *)
(* A content item is a record: tuple = FALSE is a plain string (text),     *)
(* tuple = TRUE is the pair (text, subs).  Flow cards use the same record. *)
(* Text literals are kept in ASCII: the bullet character of the source is  *)
(* written "*", other non-ASCII characters of the authored copy are        *)
(* dropped.                                                                *)
(*                                                                         *)
(* State.  slides is prs.slides; calls is the history of composer calls    *)
(* made on it; raised is the exception that ended the program ("none"      *)
(* while it runs); pc is the position in the module-level script; run      *)
(* numbers the executions of the script; file is the output artifact on    *)
(* disk; stdout is the printed lines of the current run, each a sequence   *)
(* of the pieces of its f-string; saves counts completed prs.save calls    *)
(* of the current run.                                                     *)
(***************************************************************************)
EXTENDS Integers, Sequences, FiniteSets, TLC

VARIABLES slides, calls, raised, pc, run, file, stdout, saves

vars == <<slides, calls, raised, pc, run, file, stdout, saves>>

(***************************************************************************)
(* Bounds of the explored inputs.                                          *)
(***************************************************************************)
MaxSlides == 2
MaxItems == 3
MaxSubs == 1
MaxCols == 2
MaxRows == 1
MaxCards == 3
MaxRuns == 2

(***************************************************************************)
(* Units and geometry                                                      *)
(***************************************************************************)
EMU_PER_INCH == 914400

\* Inches(x) with x given in thousandths of an inch: int(x * 914400), computed
\* as milli * 9144 div 10 to stay inside 32-bit integers
Inches(milli) == (milli * (EMU_PER_INCH \div 100)) \div 10

slide_width == Inches(13333)

card_width == Inches(2800)

start_left == Inches(500)

gap == Inches(300)

(***************************************************************************)
(* Rendering backend objects                                               *)
(***************************************************************************)
Para(text, prefix, bold, size, color) ==
    [text |-> text, prefix |-> prefix, bold |-> bold, size |-> size, color |-> color]

\* the single paragraph a new text frame starts with
EmptyPara == Para("", "", FALSE, 0, "")

NewTextFrame == <<EmptyPara>>

Shape(kind, left, width, wrap, paras, grid) ==
    [shape |-> kind, left |-> left, width |-> width, wrap |-> wrap,
     paras |-> paras, grid |-> grid]

Rectangle(left, width) == Shape("RECTANGLE", left, width, "unset", <<>>, <<>>)

RoundedRectangle(left, width) == Shape("ROUNDED_RECTANGLE", left, width, "unset", <<>>, <<>>)

RightArrow(left, width) == Shape("RIGHT_ARROW", left, width, "unset", <<>>, <<>>)

TextBox(left, width, wrap, paras) == Shape("TEXTBOX", left, width, wrap, paras, <<>>)

TableShape(left, width, grid) == Shape("TABLE", left, width, "unset", <<>>, grid)

Cell(text, fill, bold) == [text |-> text, fill |-> fill, bold |-> bold]

\* a cell of a freshly added table
EmptyCell == Cell("", "", FALSE)

\* tf.paragraphs[0].text = ... on a new text frame
SetFirst(tf, p) == [tf EXCEPT ![1] = p]

\* result of one composer call: the slide it added and the exception it ended in
Outcome(fn, shapes, exc) == [slide |-> [fn |-> fn, shapes |-> shapes], raised |-> exc]

\* background, title bar and title text shared by every non-title composer
TitledCanvas(title) ==
    << Rectangle(0, slide_width),
       Rectangle(0, slide_width),
       TextBox(Inches(500), Inches(12000), "unset",
               SetFirst(NewTextFrame, Para(title, "", TRUE, 32, "TEXT_WHITE"))) >>

(***************************************************************************)
(* add_title_slide                                                         *)
(***************************************************************************)
add_title_slide(title, subtitle) ==
    Outcome("add_title_slide",
        << Rectangle(0, slide_width),
           TextBox(Inches(500), Inches(12333), "unset",
                   SetFirst(NewTextFrame, Para(title, "", TRUE, 54, "TEXT_WHITE"))) >>
        \o (IF subtitle # ""
            THEN << TextBox(Inches(500), Inches(12333), "unset",
                            SetFirst(NewTextFrame, Para(subtitle, "", FALSE, 24, "TEXT_GRAY"))) >>
            ELSE << >>),
        "none")

(***************************************************************************)
(* add_content_slide                                                       *)
(***************************************************************************)
\* variant: every item gets a new paragraph
UseNewParagraph(i) == FALSE

\* if i == 0: p = tf.paragraphs[0]  else: p = tf.add_paragraph()
UseFirstParagraph(i) == i = 0

PutPara(tf, i, p) == IF UseFirstParagraph(i) THEN SetFirst(tf, p) ELSE Append(tf, p)

\* for j, item in enumerate(items): one bulleted paragraph per item
RECURSIVE BulletList(_, _, _, _)
BulletList(tf, items, j, size) ==
    IF j >= Len(items) THEN tf
    ELSE BulletList(PutPara(tf, j, Para(items[j + 1], "* ", FALSE, size, "TEXT_WHITE")),
                    items, j + 1, size)

\* for sub in item[1]: p = tf.add_paragraph(); p.text = f"    * {sub}"
RECURSIVE SubItems(_, _, _)
SubItems(tf, subs, k) ==
    IF k > Len(subs) THEN tf
    ELSE SubItems(Append(tf, Para(subs[k], "    * ", FALSE, 18, "TEXT_WHITE")), subs, k + 1)

\* body of the single-column loop for item number i (0-based)
SingleItem(tf, i, item) ==
    IF item.tuple
    THEN SubItems(PutPara(tf, i, Para(item.text, "", TRUE, 22, "PRIMARY")), item.subs, 1)
    ELSE PutPara(tf, i, Para(item.text, "* ", FALSE, 20, "TEXT_WHITE"))

RECURSIVE SingleColumn(_, _, _)
SingleColumn(tf, content_items, i) ==
    IF i >= Len(content_items) THEN tf
    ELSE SingleColumn(SingleItem(tf, i, content_items[i + 1]), content_items, i + 1)

\* variant: the flag alone selects the two-column layout
TwoColumnsByFlag(has_columns, content_items) == has_columns

\* if has_columns and len(content_items) == 2
TwoColumns(has_columns, content_items) == has_columns /\ Len(content_items) = 2

\* (col_title, items) = content_items[i] succeeds on a pair; the plain
\* strings of the explored inputs are not two characters long, so unpacking
\* one raises ValueError
Unpacks(item) == item.tuple

ColumnLeft(i) == IF i = 0 THEN Inches(500) ELSE Inches(6800)

ColumnShapes(i, item) ==
    << TextBox(ColumnLeft(i), Inches(5500), "unset",
               SetFirst(NewTextFrame, Para(item.text, "", TRUE, 22, "PRIMARY"))),
       TextBox(ColumnLeft(i), Inches(5500), "on",
               BulletList(NewTextFrame, item.subs, 0, 18)) >>

\* for i, (col_title, items) in enumerate(content_items): stops at the first
\* item that does not unpack
RECURSIVE ColumnLoop(_, _, _)
ColumnLoop(shapes, content_items, i) ==
    IF i >= Len(content_items) THEN [shapes |-> shapes, raised |-> "none"]
    ELSE IF ~Unpacks(content_items[i + 1]) THEN [shapes |-> shapes, raised |-> "ValueError"]
    ELSE ColumnLoop(shapes \o ColumnShapes(i, content_items[i + 1]), content_items, i + 1)

add_content_slide(title, content_items, has_columns) ==
    IF TwoColumns(has_columns, content_items)
    THEN LET r == ColumnLoop(TitledCanvas(title), content_items, 0)
         IN  Outcome("add_content_slide", r.shapes, r.raised)
    ELSE Outcome("add_content_slide",
                 Append(TitledCanvas(title),
                        TextBox(Inches(500), Inches(12000), "on",
                                SingleColumn(NewTextFrame, content_items, 0))),
                 "none")

(***************************************************************************)
(* add_diagram_slide                                                       *)
(***************************************************************************)
add_diagram_slide(title, diagram_text) ==
    Outcome("add_diagram_slide",
        TitledCanvas(title) \o
        << RoundedRectangle(Inches(500), Inches(12333)),
           TextBox(Inches(800), Inches(11733), "off",
                   SetFirst(NewTextFrame, Para(diagram_text, "", FALSE, 11, "TEXT_WHITE"))) >>,
        "none")

(***************************************************************************)
(* add_table_slide                                                         *)
(***************************************************************************)
\* num_cols = len(headers)
NumCols(headers) == Len(headers)

\* variant: no row for the headers
NumRowsNoHeader(rows) == Len(rows)

\* num_rows = len(rows) + 1
NumRows(rows) == Len(rows) + 1

\* variant: no cell lookup fails
CellAlways(num_rows, num_cols, row_idx, col_idx) == TRUE

\* table.cell(row_idx, col_idx) of the backend raises IndexError outside the
\* grid (0-based indices)
CellExists(num_rows, num_cols, row_idx, col_idx) ==
    row_idx < num_rows /\ col_idx < num_cols

\* the data row (1-based position in rows) at which the nested loop raises:
\* the first row holding a value whose cell does not exist; 0 when none
FirstBadRow(rows, num_rows, num_cols) ==
    LET bad == { r \in 1..Len(rows) :
                   \E c \in 0..(Len(rows[r]) - 1) : ~CellExists(num_rows, num_cols, r, c) }
    IN  IF bad = {} THEN 0 ELSE CHOOSE r \in bad : \A q \in bad : r <= q

\* cell.text = header, for i, header in enumerate(headers)
HeaderCell(headers, c) == Cell(headers[c], "PRIMARY", TRUE)

\* the grid after the header loop and the data loop; the data loop writes
\* the values of every row up to and including the row it raises in
TableGrid(headers, rows) ==
    LET num_cols == NumCols(headers)
        num_rows == NumRows(rows)
        bad      == FirstBadRow(rows, num_rows, num_cols)
    IN  [ r \in 1..num_rows |->
            [ c \in 1..num_cols |->
                IF r = 1 THEN HeaderCell(headers, c)
                ELSE IF (bad = 0 \/ r - 1 <= bad) /\ c <= Len(rows[r - 1])
                     THEN Cell(rows[r - 1][c], "CARD_BG", FALSE)
                     ELSE EmptyCell ] ]

add_table_slide(title, headers, rows) ==
    IF NumCols(headers) = 0
    THEN \* col_width = Inches(12 / num_cols)
         Outcome("add_table_slide", TitledCanvas(title), "ZeroDivisionError")
    ELSE Outcome("add_table_slide",
                 Append(TitledCanvas(title),
                        TableShape(Inches(500), Inches(12000), TableGrid(headers, rows))),
                 IF FirstBadRow(rows, NumRows(rows), NumCols(headers)) = 0
                 THEN "none" ELSE "IndexError")

(***************************************************************************)
(* add_flow_cards_slide                                                    *)
(***************************************************************************)
\* left = start_left + (card_width + gap) * i
CardLeft(i) == start_left + (card_width + gap) * i

\* variant: the card width is left out of the arrow position
ArrowLeftInCard(i) == CardLeft(i) + Inches(50)

\* arrow_left = left + card_width + Inches(0.05)
ArrowLeft(i) == CardLeft(i) + card_width + Inches(50)

\* variant: an arrow after every card
ArrowAfterEvery(i, n) == i < n

\* if i < len(cards) - 1
ArrowAfter(i, n) == i < n - 1

\* shapes added by one iteration of the card loop (i is 0-based)
CardShapes(i, card, n) ==
    << RoundedRectangle(CardLeft(i), card_width),
       TextBox(CardLeft(i) + Inches(100), card_width - Inches(200), "unset",
               SetFirst(NewTextFrame, Para(card.text, "", TRUE, 18, "PRIMARY"))),
       TextBox(CardLeft(i) + Inches(150), card_width - Inches(300), "on",
               BulletList(NewTextFrame, card.subs, 0, 13)) >>
    \o (IF ArrowAfter(i, n) THEN << RightArrow(ArrowLeft(i), Inches(200)) >> ELSE << >>)

RECURSIVE CardLoop(_, _, _)
CardLoop(shapes, cards, i) ==
    IF i >= Len(cards) THEN shapes
    ELSE CardLoop(shapes \o CardShapes(i, cards[i + 1], Len(cards)), cards, i + 1)

add_flow_cards_slide(title, cards) ==
    Outcome("add_flow_cards_slide", CardLoop(TitledCanvas(title), cards, 0), "none")

(***************************************************************************)
(* The presentation                                                        *)
(***************************************************************************)
\* prs = Presentation(): a new document without slides
NewPresentation == << >>

\* variant: the new slide goes to the front
AddSlideFirst(deck, slide) == << slide >> \o deck

\* prs.slides.add_slide(slide_layout): the new slide goes to the end
AddSlide(deck, slide) == Append(deck, slide)

NoCall ==
    [fn |-> "", title |-> "", subtitle |-> "", content_items |-> << >>,
     has_columns |-> FALSE, diagram_text |-> "", headers |-> << >>,
     rows |-> << >>, cards |-> << >>]

TitleCall(title, subtitle) ==
    [NoCall EXCEPT !.fn = "add_title_slide", !.title = title, !.subtitle = subtitle]

ContentCall(title, content_items, has_columns) ==
    [NoCall EXCEPT !.fn = "add_content_slide", !.title = title,
                   !.content_items = content_items, !.has_columns = has_columns]

DiagramCall(title, diagram_text) ==
    [NoCall EXCEPT !.fn = "add_diagram_slide", !.title = title,
                   !.diagram_text = diagram_text]

TableCall(title, headers, rows) ==
    [NoCall EXCEPT !.fn = "add_table_slide", !.title = title,
                   !.headers = headers, !.rows = rows]

FlowCardsCall(title, cards) ==
    [NoCall EXCEPT !.fn = "add_flow_cards_slide", !.title = title, !.cards = cards]

\* dispatch of one call to the composer it names
Compose(c) ==
    CASE c.fn = "add_title_slide"      -> add_title_slide(c.title, c.subtitle)
      [] c.fn = "add_content_slide"    -> add_content_slide(c.title, c.content_items, c.has_columns)
      [] c.fn = "add_diagram_slide"    -> add_diagram_slide(c.title, c.diagram_text)
      [] c.fn = "add_table_slide"      -> add_table_slide(c.title, c.headers, c.rows)
      [] c.fn = "add_flow_cards_slide" -> add_flow_cards_slide(c.title, c.cards)

Plain(text) == [tuple |-> FALSE, text |-> text, subs |-> << >>]

Pair(text, subs) == [tuple |-> TRUE, text |-> text, subs |-> subs]

(***************************************************************************)
(* Explored inputs of the composers                                        *)
(***************************************************************************)
SeqUpTo(S, n) == UNION { [1..k -> S] : k \in 0..n }

SubLists == SeqUpTo({"s"}, MaxSubs)

Items == { Plain("a") } \cup { Pair("h", subs) : subs \in SubLists }

ContentLists == SeqUpTo(Items, MaxItems)

HeaderLists == SeqUpTo({"H1", "H2"}, MaxCols)

RowLists == SeqUpTo(SeqUpTo({"v"}, MaxCols + 1), MaxRows)

CardLists == SeqUpTo({ Pair("c", subs) : subs \in SubLists }, MaxCards)

(***************************************************************************)
(* Composer calls on a presentation, with any explored input               *)
(***************************************************************************)
\* one call: the slide is added first, then the shapes; an exception ends
\* the program (no handler anywhere in the file)
Call(c) ==
    /\ raised = "none"
    /\ Len(slides) < MaxSlides
    /\ calls' = Append(calls, c)
    /\ slides' = AddSlide(slides, Compose(c).slide)
    /\ raised' = Compose(c).raised
    /\ UNCHANGED <<pc, run, file, stdout, saves>>

CallTitle == \E subtitle \in {"", "sub"} : Call(TitleCall("t", subtitle))

CallContent ==
    \E content_items \in ContentLists, has_columns \in BOOLEAN :
        Call(ContentCall("t", content_items, has_columns))

CallDiagram == \E diagram_text \in {"+--+\n|  |\n+--+"} : Call(DiagramCall("t", diagram_text))

CallTable ==
    \E headers \in HeaderLists, rows \in RowLists : Call(TableCall("t", headers, rows))

CallFlowCards == \E cards \in CardLists : Call(FlowCardsCall("t", cards))

NoFile == [state |-> "absent", slides |-> << >>]

Init ==
    /\ slides = NewPresentation
    /\ calls = << >>
    /\ raised = "none"
    /\ pc = 0
    /\ run = 1
    /\ file = NoFile
    /\ stdout = << >>
    /\ saves = 0

Next == CallTitle \/ CallContent \/ CallDiagram \/ CallTable \/ CallFlowCards

Spec == Init /\ [][Next]_vars

(***************************************************************************)
(* The module-level script: composer calls, save, report                   *)
(***************************************************************************)
\* lines 359-362
Slide1 ==
    TitleCall("Scenergy Visualizer",
        "AI-Powered Product Visualization Platform")

\* lines 365-374
Slide2 ==
    ContentCall("What is Scenergy Visualizer?",
        << Plain("AI-powered platform for generating professional product images"),
           Plain("Transform product photos into styled room visualizations"),
           Plain("Bulk generation for entire catalogs (50-1000+ products)"),
           Plain("Direct sync to e-commerce stores (Shopify, WooCommerce, BigCommerce)"),
           Plain("WebP-optimized images ready for CDN delivery") >>,
        FALSE)

\* lines 377-393
Slide3 ==
    ContentCall("The Problem We're Solving",
        << Pair("Traditional Product Photography",
            << "Expensive: $500-1,000+ per product",
               "Slow: 3-5 weeks turnaround",
               "Limited scene variety",
               "Manual coordination required" >>),
           Pair("Our Solution",
            << "Generate hundreds of images in minutes",
               "Fraction of the cost",
               "Unlimited style variations",
               "Fully automated workflow" >>) >>,
        FALSE)

\* lines 396-413
Slide4 ==
    ContentCall("Two Ways to Get Started",
        << Pair("Path A: Connect Store",
            << "Connect Shopify, WooCommerce, or BigCommerce",
               "Import products directly",
               "Approve images  Auto-sync to store",
               "Full bidirectional sync with ERP ID" >>),
           Pair("Path B: Upload Manually",
            << "No store connection required",
               "Upload product images directly",
               "Generate images",
               "Download only (no store sync)" >>) >>,
        TRUE)

\* lines 416-424
Slide5 ==
    FlowCardsCall("User Journey: Store Connected",
        << Pair("1. Connect",
            << "OAuth with store",
               "Select platform",
               "Authorize access" >>),
           Pair("2. Import",
            << "By product IDs",
               "By category",
               "Or all products" >>),
           Pair("3. Generate",
            << "Select products",
               "Choose inspiration",
               "AI generates images" >>),
           Pair("4. Review",
            << "Side-by-side compare",
               "Approve / Reject",
               "Edit if needed" >>) >>)

\* lines 427-435
Slide6 ==
    TableCall("Product Import Options",
        << "Method", "Best For", "Description" >>,
        << << "By Product IDs", "Specific items", "Paste SKUs or product IDs" >>,
           << "By Category", "Focused batches", "Select store categories" >>,
           << "All Products", "Full catalog", "Import everything at once" >> >>)

\* lines 438-447
Slide7 ==
    TableCall("Subscription Tiers",
        << "Plan", "Max Products", "Monthly Credits", "Price" >>,
        << << "Starter", "50", "100", "Free" >>,
           << "Pro", "100", "1,000", "$49/mo" >>,
           << "Business", "500", "5,000", "$199/mo" >>,
           << "Enterprise", "1,000+", "Unlimited", "Custom" >> >>)

\* lines 450-460
Slide8 ==
    ContentCall("Collection Session Workflow",
        << Plain("Step 1: Select Products  Choose products from your library"),
           Plain("Step 2: AI Analysis  AI detects product types, styles, colors"),
           Plain("Step 3: Choose Inspiration  Upload or search for room images"),
           Plain("Step 4: Generate  AI creates styled visualizations"),
           Plain("Step 5: Review & Approve  Side-by-side comparison"),
           Plain("Step 6: Sync to Store  Approved images auto-sync") >>,
        FALSE)

\* lines 463-483
Slide9 ==
    ContentCall("Review & Approval Experience",
        << Pair("Side-by-Side Comparison",
            << "Original product image vs Generated scene",
               "Drag slider to compare",
               "Zoom sync between images" >>),
           Pair("Review Actions",
            << "Approve  Mark for store sync (free)",
               "Edit  Open editor modal (free)",
               "Regenerate  New version (1 credit)",
               "Reject  Keep in library, no sync (free)" >>),
           Pair("Bulk Review Mode",
            << "Keyboard shortcuts: A (approve), R (reject), E (edit)",
               "Arrow keys to navigate",
               "Progress indicator: '15 of 45 reviewed'" >>) >>,
        FALSE)

\* lines 486-497
Slide10 ==
    TableCall("Credit System",
        << "Action", "Credits", "Notes" >>,
        << << "Generate image", "1", "Per image variation" >>,
           << "Regenerate", "1", "New version with same/new settings" >>,
           << "Approve", "0", "Free  marks for sync" >>,
           << "Edit", "0", "Free  opens editor" >>,
           << "Download", "0", "Free  always available" >>,
           << "Reject", "0", "Free  stays in library" >> >>)

\* lines 500-512
Slide11 ==
    TableCall("Imported vs Uploaded Products",
        << "Feature", "Imported", "Uploaded" >>,
        << << "Generate images", "", "" >>,
           << "Edit images", "", "" >>,
           << "Download images", "", "" >>,
           << "Favorite / Tag", "", "" >>,
           << "Approve for Store", "", "" >>,
           << "Sync to Store", "", "" >>,
           << "ERP ID tracking", "", "" >> >>)

\* lines 515-524
Slide12 ==
    ContentCall("Key Screens",
        << Pair("Dashboard",
            << "Recent generations",
               "Quick stats",
               "Pending review items" >>),
           Pair("Products Library",
            << "Searchable catalog",
               "Source badges (Imported/Uploaded)",
               "Quick actions" >>),
           Pair("Collection Wizard",
            << "4-step guided flow",
               "Product selection  Settings  Generation" >>),
           Pair("Review Gallery",
            << "Grid view with status filters",
               "Bulk actions",
               "Approval workflow" >>),
           Pair("Store Sync Dashboard",
            << "Connection status",
               "Sync queue",
               "History" >>) >>,
        FALSE)

\* lines 527-539
Slide13 ==
    ContentCall("AI Product Analysis",
        << Plain("Products are analyzed to understand:"),
           Plain("Product type (sofa, desk, lamp, etc.)"),
           Plain("Materials (leather, wood, metal, fabric)"),
           Plain("Color palette (primary and accent colors)"),
           Plain("Style (modern, rustic, minimalist)"),
           Plain("Best room types (living room, bedroom, office)"),
           Plain(""),
           Plain("This analysis improves prompt engineering for better results!") >>,
        FALSE)

\* lines 542-552
Slide14 ==
    ContentCall("Store Sync Workflow",
        << Plain("1. Connect Store  One-time OAuth setup (Shopify, WooCommerce, BigCommerce)"),
           Plain("2. Import Products  Products get ERP ID for tracking"),
           Plain("3. Generate Images  Normal generation workflow"),
           Plain("4. Review & Approve  Mark images as 'Approved for Store'"),
           Plain("5. Auto-Sync  Approved images automatically sync to product pages"),
           Plain("6. Track Status  View sync history, pending, failed items") >>,
        FALSE)

\* lines 555-566
Slide15 ==
    ContentCall("Key Features",
        << Plain("Bidirectional Sync  Import from store, export images back"),
           Plain("AI-Powered Analysis  Better prompts from product understanding"),
           Plain("Side-by-Side Review  Easy comparison for quality control"),
           Plain("Bulk Generation  50+ products at once with consistent style"),
           Plain("WebP Optimization  Images ready for CDN delivery"),
           Plain("Keyboard Shortcuts  Fast review with A/R/E keys"),
           Plain("Transparent Credits  Always know the cost before action") >>,
        FALSE)

\* lines 569-577
Slide16 ==
    ContentCall("Mobile Responsive",
        << Plain("Dashboard  Stats cards, quick actions"),
           Plain("Products  Grid view, swipe navigation"),
           Plain("Review  Full-screen images, tap actions"),
           Plain("Bottom navigation  Home, Products, Generate, Settings") >>,
        FALSE)

\* lines 580-601
Slide17 ==
    ContentCall("Roadmap",
        << Pair("Now: MVP (Q1 2026)",
            << "Collection Sessions (bulk generation)",
               "Standalone Generation Flows",
               "WebP optimization",
               "Approval workflow",
               "Store sync preparation" >>),
           Pair("Next: Q2 2026",
            << "Full store sync (Shopify, WooCommerce, BigCommerce)",
               "In-image editing (mask and regenerate)",
               "Video generation (product turntables)" >>),
           Pair("Later: Q3-Q4 2026",
            << "API access for developers",
               "3D model generation",
               "Advanced analytics dashboard" >>) >>,
        FALSE)

\* lines 604-607
Slide18 ==
    TitleCall("Scenergy Visualizer",
        "Questions? Contact the Product Team\n\nSee Design Logs #001-#008 for technical details")

\* variant: the closing title slide is missing
ScriptWithoutClosing ==
    << Slide1, Slide2, Slide3, Slide4, Slide5, Slide6, Slide7, Slide8, Slide9,
       Slide10, Slide11, Slide12, Slide13, Slide14, Slide15, Slide16, Slide17 >>

\* the module-level composer calls, in file order
Script ==
    << Slide1, Slide2, Slide3, Slide4, Slide5, Slide6, Slide7, Slide8, Slide9,
       Slide10, Slide11, Slide12, Slide13, Slide14, Slide15, Slide16, Slide17, Slide18 >>

NumCalls == Len(Script)

\* variant: the save comes before the last composer call, which is lost
StatementSaveEarly(p) ==
    IF p < NumCalls THEN "compose"
    ELSE IF p = NumCalls THEN "save"
    ELSE IF p = NumCalls + 1 THEN "print_saved"
    ELSE IF p = NumCalls + 2 THEN "print_total"
    ELSE "exit"

\* the statement at position p of the script
Statement(p) ==
    IF p <= NumCalls THEN "compose"
    ELSE IF p = NumCalls + 1 THEN "save"
    ELSE IF p = NumCalls + 2 THEN "print_saved"
    ELSE IF p = NumCalls + 3 THEN "print_total"
    ELSE "exit"

output_path == "Scenergy-Visualizer-UI-Slideshow.pptx"

\* variant: the deck is added to what the path held
SavedFileAppended(old, deck) == [state |-> "written", slides |-> old.slides \o deck]

\* prs.save(output_path) writes the deck over whatever the path held
SavedFile(old, deck) == [state |-> "written", slides |-> deck]

\* a write that did not complete leaves the old file or a partial one
PartialFile == [state |-> "partial", slides |-> << >>]

\* print(f"... Presentation saved to: {output_path}")
SavedLine(path) == << "Presentation saved to: ", path >>

\* variant: the count is not printed
TotalLineNoCount(deck) == << "   Total slides: " >>

\* print(f"   Total slides: {len(prs.slides)}")
TotalLine(deck) == << "   Total slides: ", ToString(Len(deck)) >>

\* the next composer call of the script
RunCompose ==
    /\ raised = "none"
    /\ Statement(pc) = "compose"
    /\ calls' = Append(calls, Script[pc])
    /\ slides' = AddSlide(slides, Compose(Script[pc]).slide)
    /\ raised' = Compose(Script[pc]).raised
    /\ pc' = IF Compose(Script[pc]).raised = "none" THEN pc + 1 ELSE pc
    /\ UNCHANGED <<run, file, stdout, saves>>

\* the rendering backend raises inside the composer call at pc, before the
\* slide is added or after any number of its shapes; nothing catches it
BackendFailure ==
    /\ raised = "none"
    /\ Statement(pc) = "compose"
    /\ LET slide == Compose(Script[pc]).slide
       IN  \/ slides' = slides
           \/ \E k \in 0..(Len(slide.shapes) - 1) :
                slides' = AddSlide(slides, [slide EXCEPT !.shapes = SubSeq(slide.shapes, 1, k)])
    /\ raised' = "BackendError"
    /\ UNCHANGED <<calls, pc, run, file, stdout, saves>>

Save ==
    /\ raised = "none"
    /\ Statement(pc) = "save"
    /\ file' = SavedFile(file, slides)
    /\ saves' = saves + 1
    /\ pc' = pc + 1
    /\ UNCHANGED <<slides, calls, raised, run, stdout>>

\* prs.save raises (the path cannot be written, the disk fills up)
SaveFails ==
    /\ raised = "none"
    /\ Statement(pc) = "save"
    /\ file' \in {file, PartialFile}
    /\ raised' = "OSError"
    /\ UNCHANGED <<slides, calls, pc, run, stdout, saves>>

PrintSaved ==
    /\ raised = "none"
    /\ Statement(pc) = "print_saved"
    /\ stdout' = Append(stdout, SavedLine(output_path))
    /\ pc' = pc + 1
    /\ UNCHANGED <<slides, calls, raised, run, file, saves>>

PrintTotal ==
    /\ raised = "none"
    /\ Statement(pc) = "print_total"
    /\ stdout' = Append(stdout, TotalLine(slides))
    /\ pc' = pc + 1
    /\ UNCHANGED <<slides, calls, raised, run, file, saves>>

\* the script is run again in the same directory: a new process, the file
\* of the earlier run still on disk
StartRun ==
    /\ Statement(pc) = "exit" \/ raised # "none"
    /\ run < MaxRuns
    /\ run' = run + 1
    /\ slides' = NewPresentation
    /\ calls' = << >>
    /\ raised' = "none"
    /\ pc' = 1
    /\ stdout' = << >>
    /\ saves' = 0
    /\ UNCHANGED file

InitRun ==
    /\ slides = NewPresentation
    /\ calls = << >>
    /\ raised = "none"
    /\ pc = 1
    /\ run = 1
    /\ file = NoFile
    /\ stdout = << >>
    /\ saves = 0

NextRun ==
    \/ RunCompose
    \/ BackendFailure
    \/ Save
    \/ SaveFails
    \/ PrintSaved
    \/ PrintTotal
    \/ StartRun

SpecRun == InitRun /\ [][NextRun]_vars

(***************************************************************************)
(* Properties                                                              *)
(***************************************************************************)
LastCall == calls[Len(calls)]

LastSlide == slides[Len(slides)]

Made(fn) == calls # << >> /\ LastCall.fn = fn

\* positions of the shapes of one kind on a slide
Indices(slide, kind) == { i \in 1..Len(slide.shapes) : slide.shapes[i].shape = kind }

\* the slides the calls made so far render, in call order
Rendered(cs) == [ i \in 1..Len(cs) |-> Compose(cs[i]).slide ]

\* C2: every composer call appends exactly one slide to the end of the deck
\* and leaves the slides already there unchanged in number and order, so the
\* deck is always the sequence of the rendered slides in call order.
C2_AppendOnly ==
    /\ [](slides = Rendered(calls))
    /\ [][ /\ Len(calls') = Len(calls) + 1
           /\ Len(slides') = Len(slides) + 1
           /\ SubSeq(slides', 1, Len(slides)) = slides
           /\ slides'[Len(slides')] = Compose(calls'[Len(calls')]).slide ]_vars

C2_Witness ==
    /\ Len(slides) = 2
    /\ calls[1].fn # calls[2].fn
    /\ slides[1] # slides[2]
    /\ slides[2].fn = calls[2].fn

Panels == Indices(LastSlide, "ROUNDED_RECTANGLE")

Arrows == Indices(LastSlide, "RIGHT_ARROW")

\* every arrow has a card panel before it and one after it, and between two
\* neighbouring card panels there is exactly one arrow
ArrowsBetweenCards ==
    /\ \A a \in Arrows : (\E p \in Panels : p < a) /\ (\E q \in Panels : a < q)
    /\ \A p, q \in Panels :
         (p < q /\ ~ \E m \in Panels : p < m /\ m < q)
            => Cardinality({ a \in Arrows : p < a /\ a < q }) = 1

\* C3 as stated: N cards give N card panels and N-1 connector arrows, each
\* between two consecutive cards and none after the last card.
C3_Original ==
    Made("add_flow_cards_slide") =>
        /\ Cardinality(Panels) = Len(LastCall.cards)
        /\ Cardinality(Arrows) = Len(LastCall.cards) - 1
        /\ ArrowsBetweenCards

\* C3 amended: N >= 1 cards give N card panels and N-1 connector arrows, each
\* between two consecutive cards and none after the last card; an empty card
\* list gives no panel and no arrow.
C3_CardsAndArrows ==
    Made("add_flow_cards_slide") =>
        /\ Cardinality(Panels) = Len(LastCall.cards)
        /\ Cardinality(Arrows) =
              (IF Len(LastCall.cards) = 0 THEN 0 ELSE Len(LastCall.cards) - 1)
        /\ ArrowsBetweenCards
        /\ raised = "none"

C3_Witness ==
    /\ Made("add_flow_cards_slide")
    /\ Len(LastCall.cards) = 3
    /\ Cardinality(Panels) = 3
    /\ Cardinality(Arrows) = 2

Tables == Indices(LastSlide, "TABLE")

\* the slide holds one grid of len(rows)+1 rows and len(headers) columns
\* whose first row holds the headers
GridMatches ==
    /\ Cardinality(Tables) = 1
    /\ \A t \in Tables :
         LET grid == LastSlide.shapes[t].grid
         IN  /\ Len(grid) = Len(LastCall.rows) + 1
             /\ \A r \in 1..Len(grid) : Len(grid[r]) = Len(LastCall.headers)
             /\ \A c \in 1..Len(LastCall.headers) :
                  grid[1][c].text = LastCall.headers[c]

\* C4 as stated: for all headers and rows the grid has len(headers) columns
\* and len(rows)+1 rows and cell (0, c) holds headers[c].
C4_Original == Made("add_table_slide") => GridMatches

\* C4 amended: with at least one header the grid has len(headers) columns
\* and len(rows)+1 rows and cell (0, c) holds headers[c]; with no header the
\* call raises ZeroDivisionError before any grid is added.
C4_Grid ==
    Made("add_table_slide") =>
        IF Len(LastCall.headers) > 0
        THEN GridMatches
        ELSE Tables = {} /\ raised = "ZeroDivisionError"

C4_Witness ==
    /\ Made("add_table_slide")
    /\ Len(LastCall.headers) = 2
    /\ LastCall.headers[1] # LastCall.headers[2]
    /\ Len(LastCall.rows) = 1
    /\ Len(LastCall.rows[1]) = 2
    /\ raised = "none"

\* the shapes a composer adds after the background, title bar and title text
Body(slide) == SubSeq(slide.shapes, 4, Len(slide.shapes))

RendersTwoColumns(slide) ==
    /\ Len(Body(slide)) = 4
    /\ \A i \in 1..4 : Body(slide)[i].shape = "TEXTBOX" /\ Body(slide)[i].width = Inches(5500)
    /\ Body(slide)[1].left = Inches(500) /\ Body(slide)[2].left = Inches(500)
    /\ Body(slide)[3].left = Inches(6800) /\ Body(slide)[4].left = Inches(6800)

RendersSingleColumn(slide) ==
    /\ Len(Body(slide)) = 1
    /\ Body(slide)[1].shape = "TEXTBOX"
    /\ Body(slide)[1].left = Inches(500)
    /\ Body(slide)[1].width = Inches(12000)

ExactlyTwoGroups(c) ==
    Len(c.content_items) = 2 /\ \A i \in 1..2 : c.content_items[i].tuple

SomeRowDiffers(c) == \E r \in 1..Len(c.rows) : Len(c.rows[r]) # Len(c.headers)

SomeRowLonger(c) == \E r \in 1..Len(c.rows) : Len(c.rows[r]) > Len(c.headers)

\* C6 as stated: a table in which some row's length differs from
\* len(headers) ends in an uncaught failure.
C6_Original ==
    (Made("add_table_slide") /\ SomeRowDiffers(LastCall)) => raised # "none"

\* C6 amended: a table in which some row is longer than len(headers) ends in
\* an uncaught failure after which the program takes no further step; with at
\* least one header and no longer row (rows may be shorter) the call raises
\* nothing.
C6_LongRowFails ==
    /\ [](Made("add_table_slide") =>
            /\ SomeRowLonger(LastCall) => raised \in {"IndexError", "ZeroDivisionError"}
            /\ (Len(LastCall.headers) > 0 /\ ~SomeRowLonger(LastCall)) => raised = "none")
    /\ [][raised = "none"]_vars

C6_Witness ==
    /\ Made("add_table_slide")
    /\ Len(LastCall.headers) = 1
    /\ SomeRowLonger(LastCall)
    /\ raised = "IndexError"

IsSingleColumn(c) ==
    c.fn = "add_content_slide" /\ ~(c.has_columns /\ Len(c.content_items) = 2)

\* the paragraphs one item stands for
ExpectedItem(item) ==
    IF item.tuple
    THEN << Para(item.text, "", TRUE, 22, "PRIMARY") >>
         \o [ k \in 1..Len(item.subs) |-> Para(item.subs[k], "    * ", FALSE, 18, "TEXT_WHITE") ]
    ELSE << Para(item.text, "* ", FALSE, 20, "TEXT_WHITE") >>

RECURSIVE ExpectedParas(_)
ExpectedParas(items) ==
    IF items = << >> THEN << >>
    ELSE ExpectedItem(Head(items)) \o ExpectedParas(Tail(items))

RECURSIVE ParaCount(_)
ParaCount(items) ==
    IF items = << >> THEN 0
    ELSE (IF Head(items).tuple THEN 1 + Len(Head(items).subs) ELSE 1) + ParaCount(Tail(items))

BodyParas == LastSlide.shapes[4].paras

AuthoredOrder ==
    << "add_title_slide",
       "add_content_slide", "add_content_slide", "add_content_slide",
       "add_flow_cards_slide", "add_table_slide", "add_table_slide",
       "add_content_slide", "add_content_slide",
       "add_table_slide", "add_table_slide",
       "add_content_slide", "add_content_slide", "add_content_slide",
       "add_content_slide", "add_content_slide", "add_content_slide",
       "add_title_slide" >>

IsTitleSlide(slide) ==
    /\ slide.fn = "add_title_slide"
    /\ slide.shapes[2].shape = "TEXTBOX"

IsBodySlide(slide) ==
    /\ slide.fn \in {"add_content_slide", "add_table_slide",
                     "add_diagram_slide", "add_flow_cards_slide"}
    /\ slide.shapes[2].shape = "RECTANGLE"

\* C1: once a run has made all its composer calls the deck holds exactly 18
\* slides in the authored order: a title slide, 16 content, table, diagram or
\* flow-card slides, and a closing title slide.
C1_EighteenSlides ==
    (pc > NumCalls) =>
        /\ Len(slides) = 18
        /\ \A i \in 1..18 : slides[i].fn = AuthoredOrder[i]
        /\ IsTitleSlide(slides[1])
        /\ \A i \in 2..17 : IsBodySlide(slides[i])
        /\ IsTitleSlide(slides[18])

C1_Witness ==
    /\ Statement(pc) = "save"
    /\ raised = "none"
    /\ Len(slides) = 18
    /\ IsTitleSlide(slides[18])

Exited == Statement(pc) = "exit" /\ raised = "none"

Contains(line, piece) == \E i \in 1..Len(line) : line[i] = piece

\* C7 as stated: after the save the run prints one line that contains both
\* the output filename and the slide count 18.
C7_Original ==
    Exited => \E i \in 1..Len(stdout) :
                 Contains(stdout[i], output_path) /\ Contains(stdout[i], "18")

\* C7 amended: after the save the run prints two lines: the first contains
\* the output filename, the second contains the slide count 18.
C7_TwoLines ==
    /\ stdout # << >> => saves = 1
    /\ Exited =>
         /\ Len(stdout) = 2
         /\ Contains(stdout[1], "Scenergy-Visualizer-UI-Slideshow.pptx")
         /\ Contains(stdout[2], "18")

C7_Witness ==
    /\ Exited
    /\ Len(stdout) = 2
    /\ stdout[1] # stdout[2]

\* C8: every run starts from an empty document and, once it has saved, the
\* artifact holds 18 slides, in the first run and in every later run.
C8_NoAccumulation ==
    /\ (pc = 1 /\ raised = "none") => slides = << >>
    /\ (raised = "none" /\ pc > NumCalls + 1) =>
          (file.state = "written" /\ Len(file.slides) = 18)

C8_Witness ==
    /\ run = 2
    /\ Exited
    /\ file.state = "written"
    /\ Len(file.slides) = 18

\* C9: in a run the deck is saved at most once, and exactly once in a run
\* that reaches its end; the save happens when all 18 slides are in the deck,
\* no slide is added after it, the file changes in no other statement, and a
\* run whose composer call fails has not saved.
C9_SaveOnceAtEnd ==
    /\ [](/\ saves <= 1
          /\ saves = 1 => (Len(slides) = 18 /\ Len(calls) = 18)
          /\ Exited => saves = 1
          /\ (raised # "none" /\ Statement(pc) = "compose") => saves = 0)
    /\ [][ /\ (run' = run /\ saves' # saves) =>
                (saves = 0 /\ Len(slides) = 18 /\ slides' = slides)
           /\ (run' = run /\ saves = 1) => slides' = slides
           /\ (file' # file) => (Statement(pc) = "save" /\ Len(slides) = 18) ]_vars

C9_Witness ==
    /\ saves = 1
    /\ Statement(pc) = "print_saved"
    /\ file = SavedFile(NoFile, slides)
    /\ Len(slides) = 18

\* the card panel an arrow follows and the card panel it precedes
PanelBefore(a) == CHOOSE p \in Panels : p < a /\ \A m \in Panels : m < a => m <= p

PanelAfter(a) == CHOOSE q \in Panels : a < q /\ \A m \in Panels : a < m => q <= m

\* 0-based number of the card whose panel is at position p of the slide
CardNumber(p) == Cardinality({ m \in Panels : m < p })

RightEdge(shape) == shape.left + shape.width

\* C11: on a flow-card slide with N >= 2 cards, in EMU, the arrow after card i
\* lies inside the gap between card i and card i+1: the right edge of card i
\* (left_i + card_width) is at most arrow_left, and arrow_left + arrow_width
\* is at most the left edge of card i+1, start_left + (card_width + gap) *
\* (i+1); so no arrow overlaps any card panel.
C11_ArrowInsideGap ==
    (Made("add_flow_cards_slide") /\ Len(LastCall.cards) >= 2) =>
        /\ Cardinality(Arrows) = Len(LastCall.cards) - 1
        /\ \A a \in Arrows :
             LET arrow == LastSlide.shapes[a]
                 card  == LastSlide.shapes[PanelBefore(a)]
                 next  == LastSlide.shapes[PanelAfter(a)]
                 i     == CardNumber(PanelBefore(a))
             IN  /\ card.left = start_left + (card_width + gap) * i
                 /\ card.width = card_width
                 /\ next.left = start_left + (card_width + gap) * (i + 1)
                 /\ RightEdge(card) <= arrow.left
                 /\ RightEdge(arrow) <= next.left
                 /\ arrow.width > 0
        /\ \A a \in Arrows, p \in Panels :
             \/ RightEdge(LastSlide.shapes[a]) <= LastSlide.shapes[p].left
             \/ RightEdge(LastSlide.shapes[p]) <= LastSlide.shapes[a].left

C11_Witness ==
    /\ Made("add_flow_cards_slide")
    /\ Len(LastCall.cards) = 3
    /\ \E a \in Arrows :
         /\ CardNumber(PanelBefore(a)) = 1
         /\ LastSlide.shapes[a].left = Inches(500) + Inches(3100) + Inches(2800) + Inches(50)
         /\ LastSlide.shapes[a].width = Inches(200)

====
